---- MODULE Spec2Model ----
(***************************************************************************)
(* SubHub backend: session-based authentication (api/auth.py,              *)
(* core/security.py) over the in-memory stores and the JSON persistence    *)
(* of db/storage.py.                                                       *)
(*                                                                         *)
(* user_database and active_sessions are the module-level dictionaries of  *)
(* db/storage.py; both import spellings used in the tree (app.db.storage   *)
(* and src.app.db.storage) are taken to name the same dictionaries.        *)
(* secrets.token_urlsafe(16) is modelled as a source of tokens that never  *)
(* repeats (next_token); time.time() is the variable now.                  *)
(*                                                                         *)
(* The subscription handlers of api/subscriptions.py, a restart of the     *)
(* process, save_data_to_file taken one statement at a time, data files    *)
(* left by earlier runs, and the throttled save_data_to_file of            *)
(* old_src/app/db/storage.py have specifications of their own below.       *)
(***************************************************************************)
EXTENDS Integers, Sequences, FiniteSets, TLC

\* ---------------------------------------------------------------- bounds
MaxTokens == 2
MaxTime == 3601
\* old_src storage: seconds the clock advances, save calls made
MaxTicks == 2
MaxSaves == 3

\* ------------------------------------------------------- program constants
DEFAULT_TOKEN_EXPIRATION == 3600

\* ------------------------------------------------------------ input sets
Emails == {"a@x.com", "b@x.com"}
Passwords == {"P1!aaaaa", "P2!bbbbb"}
\* the registration requests clients send
RegisterRequests ==
    { [email |-> "a@x.com", username |-> "ann", password |-> "P1!aaaaa"],
      [email |-> "a@x.com", username |-> "bob", password |-> "P2!bbbbb"],
      [email |-> "b@x.com", username |-> "bob", password |-> "P1!aaaaa"] }
Services == {"Netflix"}
TickSteps == {1800, 1801}
Workers == {"w1", "w2"}
\* a token no login ever returned
BogusToken == 0
NoToken == -1

VARIABLES
    user_database,      \* email -> [username, passhash, subscriptions]
    active_sessions,    \* token -> [email, expires]
    email_to_token_map, \* email -> token
    data_file,          \* [state: "absent" | "corrupt" | "wrong_shape" | "ok",
                        \*  users: email -> stored record]
    now,                \* time.time()
    next_token,         \* the next value secrets.token_urlsafe returns
    response,           \* what the last handler returned to its caller
    login_log,          \* token -> email: every token a login returned
    login_passwords,    \* token -> the password of the login that returned it
    pc,                 \* per worker: position inside a concurrent login
    local,              \* per worker: locals of login_user
    save_pc,            \* position inside save_data_to_file: "idle" | "opened"
    save_prev,          \* the file as it was when the running save began
    last_save_time,     \* old_src storage: _last_save_time
    temp_file,          \* old_src storage: the .tmp file next to the data file
    save_log            \* old_src storage: the save calls made so far

\* the state of the stepwise save and of the throttled storage of old_src
io_vars == <<save_pc, save_prev, last_save_time, temp_file, save_log>>

vars == <<user_database, active_sessions, email_to_token_map, data_file, now,
          next_token, response, login_log, login_passwords, pc, local,
          io_vars>>

\* ---------------------------------------------------------- dict helpers
EmptyDict == [k \in {} |-> 0]

DictPut(d, k, v) == [x \in (DOMAIN d) \cup {k} |-> IF x = k THEN v ELSE d[x]]

DictDel(d, k) == [x \in (DOMAIN d) \ {k} |-> d[x]]

\* ------------------------------------------------------- password hasher
\* a hasher that returns the password itself
Mutant_hash_password(plain_password) == plain_password

hash_password(plain_password) == "sha256:" \o plain_password

\* strings str.encode() refuses (a lone surrogate): hash_password raises
\* UnicodeEncodeError on them
Unencodable == {"P3?surrogate"}

\* the except branch turns the error of hash_password into False
verify_password(plain_password, hashed_password) ==
    IF plain_password \in Unencodable THEN FALSE
    ELSE hash_password(plain_password) = hashed_password

\* ------------------------------------------------------------- responses
Resp(op, email, tok, status, detail, token, save) ==
    [op |-> op, email |-> email, tok |-> tok, status |-> status,
     detail |-> detail, token |-> token, save |-> save]

\* the locals of a handler that has not started: of login_user (email,
\* password, existing_token, session_token), of register_user (email,
\* username, password_hash) and of perform_save (data_to_save)
NoLocal ==
    [email |-> "", password |-> "", existing_token |-> NoToken,
     session_token |-> NoToken, username |-> "", password_hash |-> "",
     data_to_save |-> [state |-> "absent", users |-> [k \in {} |-> 0]]]

\* no data file on disk
NoFile == [state |-> "absent", users |-> EmptyDict]

\* the module-level state of a freshly started process
ProcessStart ==
    /\ user_database = EmptyDict
    /\ active_sessions = EmptyDict
    /\ email_to_token_map = EmptyDict
    /\ next_token = 1
    /\ response = Resp("none", "", NoToken, 0, "", NoToken, "none")
    /\ login_log = EmptyDict
    /\ login_passwords = EmptyDict
    /\ pc = [w \in Workers |-> "idle"]
    /\ local = [w \in Workers |-> NoLocal]
    /\ save_pc = "idle"
    /\ save_prev = NoFile
    /\ last_save_time = 0
    /\ temp_file = NoFile
    /\ save_log = << >>

Init ==
    /\ ProcessStart
    /\ data_file = NoFile
    /\ now = 0

\* ------------------------------------------------------------ persistence
\* The outcome of one save_data_to_file call: the whole document written,
\* open() refused (or the directory could not be created), or the write
\* failing after open(.., "w") truncated the target.
SaveOutcomes == {"ok", "open_fail", "write_fail"}

\* ---- dates and their text
Date(y, m, d) == [year |-> y, month |-> m, day |-> d]

\* date.today() on the day the process runs
today == Date(2025, 6, 1)

\* the starting dates clients send with a new subscription
StartingDates == {Date(2025, 1, 15)}

IsLeap(y) == (y % 4 = 0 /\ y % 100 # 0) \/ y % 400 = 0

DaysInMonth(y, m) ==
    IF m = 2 THEN (IF IsLeap(y) THEN 29 ELSE 28)
    ELSE IF m \in {4, 6, 9, 11} THEN 30 ELSE 31

\* A JSON string is modelled by the fields a date parser reads from it:
\* <<y, m, d>> for a text of the form YYYY-MM-DD, << >> for any other text.
\* a date text with the day written before the month
Mutant_isoformat(d) == [str |-> <<d.year, d.day, d.month>>]

\* str(date), which json.dump(default=str) applies to a date.
isoformat(d) == [str |-> <<d.year, d.month, d.day>>]

\* date.fromisoformat: the date, or ValueError
fromisoformat(text) ==
    LET f == text.str IN
    IF /\ Len(f) = 3
       /\ f[1] \in 1 .. 9999
       /\ f[2] \in 1 .. 12
       /\ f[3] \in 1 .. DaysInMonth(f[1], f[2])
    THEN [ok |-> TRUE, date |-> Date(f[1], f[2], f[3])]
    ELSE [ok |-> FALSE, date |-> today]

\* ---- the document
\* user.model_dump() as json.dump writes it
model_dump(user) ==
    [kind |-> "object",
     username |-> user.username,
     passhash |-> user.passhash,
     subscriptions |->
        [i \in 1 .. Len(user.subscriptions) |->
            [service_name |-> user.subscriptions[i].service_name,
             starting_date |-> isoformat(user.subscriptions[i].starting_date)]]]

\* a document that also carries the session table
Mutant_Snapshot(db) ==
    [state |-> "ok", users |-> [email \in DOMAIN db |-> model_dump(db[email])],
     sessions |-> active_sessions]

Snapshot(db) ==
    [state |-> "ok", users |-> [email \in DOMAIN db |-> model_dump(db[email])]]

save_data_to_file(db, file, outcome) ==
    CASE outcome = "ok" -> Snapshot(db)
      [] outcome = "open_fail" -> file
      [] OTHER -> [state |-> "corrupt", users |-> EmptyDict]

\* the conversion with the first day of 1970 as its fallback
Mutant_ConvertSubscription(subscription) ==
    LET parsed == fromisoformat(subscription.starting_date) IN
    [service_name |-> subscription.service_name,
     starting_date |-> IF parsed.ok THEN parsed.date ELSE Date(1970, 1, 1)]

\* the date conversion load applies to one stored subscription
ConvertSubscription(subscription) ==
    LET parsed == fromisoformat(subscription.starting_date) IN
    [service_name |-> subscription.service_name,
     starting_date |-> IF parsed.ok THEN parsed.date ELSE today]

\* User(**user_data): the account, or a validation error
ParseUser(user_data) ==
    IF user_data.username = ""
    THEN [ok |-> FALSE, user |-> user_data]
    ELSE [ok |-> TRUE,
          user |-> [username |-> user_data.username,
                    passhash |-> user_data.passhash,
                    subscriptions |->
                        [i \in 1 .. Len(user_data.subscriptions) |->
                            ConvertSubscription(user_data.subscriptions[i])]]]

\* the orders in which a dictionary with these keys can be iterated
Orders(keys) ==
    { order \in [1 .. Cardinality(keys) -> keys] :
        \A i, j \in DOMAIN order : order[i] = order[j] => i = j }

\* The loop of perform_load from record i of the document on, db being the
\* store so far. A record that is not an object (a number, null) raises
\* TypeError at the "subscriptions" test, outside the try: the loop is
\* abandoned and safe_operation turns the exception into a failure. A
\* record User() rejects is skipped.
RECURSIVE RestoreUsers(_, _, _, _)
RestoreUsers(db, users, order, i) ==
    IF i > Len(order) THEN [db |-> db, result |-> TRUE]
    ELSE LET email == order[i]
             user_data == users[email] IN
         IF user_data.kind # "object" THEN [db |-> db, result |-> FALSE]
         ELSE LET parsed == ParseUser(user_data) IN
              RestoreUsers(IF parsed.ok THEN DictPut(db, email, parsed.user)
                           ELSE db,
                           users, order, i + 1)

\* load_data_from_file: the store after the call and the value returned.
\* A missing file returns False before anything is touched; json.load on a
\* document that does not parse raises before user_database.clear() is
\* reached; a document whose top level (or whose "users") is not an object
\* raises AttributeError after the clear.
load_data_from_file(db, file, order) ==
    CASE file.state = "ok" -> RestoreUsers(EmptyDict, file.users, order, 1)
      [] file.state = "wrong_shape" -> [db |-> EmptyDict, result |-> FALSE]
      [] OTHER -> [db |-> db, result |-> FALSE]

\* ------------------------------------------------------------- register
\* register_user without the check for an existing email
Mutant_register_user(email, username, password) ==
    \E outcome \in SaveOutcomes :
        /\ user_database' = DictPut(user_database, email,
               [username |-> username,
                passhash |-> hash_password(password),
                subscriptions |-> <<>>])
        /\ data_file' = save_data_to_file(user_database', data_file, outcome)
        /\ response' = Resp("register", email, NoToken, 201,
                            "Registration successful", NoToken, outcome)

register_user(email, username, password) ==
    IF email \in DOMAIN user_database
    THEN /\ response' = Resp("register", email, NoToken, 400,
                             "Email already registered", NoToken, "none")
         /\ UNCHANGED <<user_database, data_file>>
    ELSE \E outcome \in SaveOutcomes :
         /\ user_database' = DictPut(user_database, email,
                [username |-> username,
                 passhash |-> hash_password(password),
                 subscriptions |-> <<>>])
         /\ data_file' = save_data_to_file(user_database', data_file, outcome)
         /\ response' = Resp("register", email, NoToken, 201,
                             "Registration successful", NoToken, outcome)

Register ==
    \E user_data \in RegisterRequests :
        /\ register_user(user_data.email, user_data.username,
                         user_data.password)
        /\ UNCHANGED io_vars
        /\ UNCHANGED login_passwords
        /\ UNCHANGED <<active_sessions, email_to_token_map, now, next_token,
                       login_log, pc, local>>

\* ------------------------------------------------------------ auth gate
\* get_current_user with the expiry test written >= instead of >
Mutant_get_current_user(auth_token) ==
    IF auth_token \notin DOMAIN active_sessions
    THEN [status |-> 401, detail |-> "Invalid or expired token"]
    ELSE IF now >= active_sessions[auth_token].expires
    THEN [status |-> 401, detail |-> "Token expired"]
    ELSE IF active_sessions[auth_token].email \notin DOMAIN user_database
    THEN [status |-> 401, detail |-> "Account not found"]
    ELSE [status |-> 200, detail |-> active_sessions[auth_token].email]

\* get_current_user: the HTTP status and detail it produces for auth_token
get_current_user(auth_token) ==
    IF auth_token \notin DOMAIN active_sessions
    THEN [status |-> 401, detail |-> "Invalid or expired token"]
    ELSE IF now > active_sessions[auth_token].expires
    THEN [status |-> 401, detail |-> "Token expired"]
    ELSE IF active_sessions[auth_token].email \notin DOMAIN user_database
    THEN [status |-> 401, detail |-> "Account not found"]
    ELSE [status |-> 200, detail |-> active_sessions[auth_token].email]

\* get_current_user without the del of the expired entry
Mutant_SessionsAfterAuth(auth_token) == active_sessions

\* the Session Table get_current_user leaves behind
SessionsAfterAuth(auth_token) ==
    IF /\ auth_token \in DOMAIN active_sessions
       /\ now > active_sessions[auth_token].expires
    THEN DictDel(active_sessions, auth_token)
    ELSE active_sessions

\* a protected read (GET /subscriptions): get_current_user and nothing else
Resolve ==
    \E auth_token \in BogusToken .. (next_token - 1) :
        LET r == get_current_user(auth_token) IN
        /\ active_sessions' = SessionsAfterAuth(auth_token)
        /\ response' = Resp("resolve", "", auth_token, r.status, r.detail,
                            NoToken, "none")
        /\ UNCHANGED io_vars
        /\ UNCHANGED login_passwords
        /\ UNCHANGED <<user_database, email_to_token_map, data_file, now,
                       next_token, login_log, pc, local>>

\* ---------------------------------------------------------------- login
\* create_access_token storing the current time as the expiry
Mutant_create_access_token(sessions, session_token, email) ==
    DictPut(sessions, session_token, [email |-> email, expires |-> now])

create_access_token(sessions, session_token, email) ==
    DictPut(sessions, session_token,
            [email |-> email, expires |-> now + DEFAULT_TOKEN_EXPIRATION])

\* login_user without the invalidation of the previous session
Mutant_InvalidateExisting(sessions, email) == sessions

\* Single-session policy of login_user: drop the session the index names
InvalidateExisting(sessions, email) ==
    IF /\ email \in DOMAIN email_to_token_map
       /\ email_to_token_map[email] \in DOMAIN sessions
    THEN DictDel(sessions, email_to_token_map[email])
    ELSE sessions

\* login_user without the update of the index
Mutant_UpdateIndex(index, email, session_token) == index

\* email_to_token_map[credentials.email] = session_token
UpdateIndex(index, email, session_token) == DictPut(index, email, session_token)

\* the checks of login_user without the password verification
Mutant_LoginFailure(email, password) ==
    IF email \notin DOMAIN user_database
    THEN [status |-> 404, detail |-> "User not found"]
    ELSE [status |-> 200, detail |-> ""]

LoginFailure(email, password) ==
    IF email \notin DOMAIN user_database
    THEN [status |-> 404, detail |-> "User not found"]
    ELSE IF user_database[email].passhash = ""
    THEN [status |-> 401, detail |-> "Password not set for account"]
    ELSE IF ~ verify_password(password, user_database[email].passhash)
    THEN [status |-> 401, detail |-> "Incorrect password"]
    ELSE [status |-> 200, detail |-> ""]

\* login_user invalidating the previous session before the password check
Mutant_login_user(email, password) ==
    LET f == LoginFailure(email, password) IN
    IF f.status # 200
    THEN /\ response' = Resp("login", email, NoToken, f.status, f.detail,
                             NoToken, "none")
         /\ active_sessions' = InvalidateExisting(active_sessions, email)
         /\ UNCHANGED <<email_to_token_map, next_token, login_log,
                        login_passwords>>
    ELSE /\ next_token <= MaxTokens
         /\ active_sessions' = create_access_token(
                InvalidateExisting(active_sessions, email), next_token, email)
         /\ email_to_token_map' = UpdateIndex(email_to_token_map, email,
                                              next_token)
         /\ next_token' = next_token + 1
         /\ login_log' = DictPut(login_log, next_token, email)
         /\ login_passwords' = DictPut(login_passwords, next_token, password)
         /\ response' = Resp("login", email, NoToken, 200, "Login successful",
                             next_token, "none")

login_user(email, password) ==
    LET f == LoginFailure(email, password) IN
    IF f.status # 200
    THEN /\ response' = Resp("login", email, NoToken, f.status, f.detail,
                             NoToken, "none")
         /\ UNCHANGED <<active_sessions, email_to_token_map, next_token,
                        login_log, login_passwords>>
    ELSE /\ next_token <= MaxTokens
         /\ active_sessions' = create_access_token(
                InvalidateExisting(active_sessions, email), next_token, email)
         /\ email_to_token_map' = UpdateIndex(email_to_token_map, email,
                                              next_token)
         /\ next_token' = next_token + 1
         /\ login_log' = DictPut(login_log, next_token, email)
         /\ login_passwords' = DictPut(login_passwords, next_token, password)
         /\ response' = Resp("login", email, NoToken, 200, "Login successful",
                             next_token, "none")

Login ==
    \E email \in Emails, password \in Passwords :
        /\ login_user(email, password)
        /\ UNCHANGED io_vars
        /\ UNCHANGED <<user_database, data_file, now, pc, local>>

\* --------------------------------------------------------------- logout
\* logout_user clearing the whole table instead of one entry
Mutant_RemoveSession(sessions, auth_token) == EmptyDict

\* del active_sessions[auth_token]
RemoveSession(sessions, auth_token) == DictDel(sessions, auth_token)

\* a logout that drops the index entry and leaves the session in place
Mutant_logout_user(auth_token) ==
    LET r == get_current_user(auth_token) IN
    /\ active_sessions' = SessionsAfterAuth(auth_token)
    /\ IF r.status # 200
       THEN /\ response' = Resp("logout", "", auth_token, r.status, r.detail,
                                NoToken, "none")
            /\ UNCHANGED email_to_token_map
       ELSE /\ email_to_token_map' = DictDel(email_to_token_map, r.detail)
            /\ response' = Resp("logout", r.detail, auth_token, 200,
                                "Logout successful", NoToken, "none")

\* logout_user runs behind Depends(get_current_user): its body is entered
\* only when get_current_user returned a user.
logout_user(auth_token) ==
    LET r == get_current_user(auth_token)
        sessions == SessionsAfterAuth(auth_token) IN
    IF r.status # 200
    THEN /\ active_sessions' = sessions
         /\ response' = Resp("logout", "", auth_token, r.status, r.detail,
                             NoToken, "none")
         /\ UNCHANGED email_to_token_map
    ELSE IF auth_token \in DOMAIN sessions
    THEN LET user_email == sessions[auth_token].email IN
         /\ active_sessions' = RemoveSession(sessions, auth_token)
         /\ email_to_token_map' =
                IF /\ user_email \in DOMAIN email_to_token_map
                   /\ email_to_token_map[user_email] = auth_token
                THEN DictDel(email_to_token_map, user_email)
                ELSE email_to_token_map
         /\ response' = Resp("logout", user_email, auth_token, 200,
                             "Logout successful", NoToken, "none")
    ELSE /\ response' = Resp("logout", "", auth_token, 200,
                             "Already logged out", NoToken, "none")
         /\ UNCHANGED <<active_sessions, email_to_token_map>>

Logout ==
    \E auth_token \in BogusToken .. (next_token - 1) :
        /\ logout_user(auth_token)
        /\ UNCHANGED io_vars
        /\ UNCHANGED login_passwords
        /\ UNCHANGED <<user_database, data_file, now, next_token, login_log,
                       pc, local>>

\* -------------------------------------------------------- subscriptions
check_duplicate_subscription(user, service_name) ==
    \E i \in 1 .. Len(user.subscriptions) :
        user.subscriptions[i].service_name = service_name

\* add_subscription trusting any token found in active_sessions, without
\* the expiry test of get_current_user
Mutant_add_subscription(auth_token, service_name, starting_date) ==
    /\ UNCHANGED active_sessions
    /\ IF auth_token \notin DOMAIN active_sessions
       THEN /\ response' = Resp("add_subscription", "", auth_token, 401,
                                "Invalid or expired token", NoToken, "none")
            /\ UNCHANGED <<user_database, data_file>>
       ELSE LET email == active_sessions[auth_token].email IN
            /\ user_database' = [user_database EXCEPT
                   ![email].subscriptions =
                       Append(@, [service_name |-> service_name,
                                  starting_date |-> starting_date])]
            /\ data_file' = save_data_to_file(user_database', data_file, "ok")
            /\ response' = Resp("add_subscription", email, auth_token, 201,
                                "Subscription added", NoToken, "ok")

add_subscription(auth_token, service_name, starting_date) ==
    LET r == get_current_user(auth_token) IN
    /\ active_sessions' = SessionsAfterAuth(auth_token)
    /\ IF r.status # 200
       THEN /\ response' = Resp("add_subscription", "", auth_token, r.status,
                                r.detail, NoToken, "none")
            /\ UNCHANGED <<user_database, data_file>>
       ELSE LET email == r.detail
                current_user == user_database[email] IN
            IF check_duplicate_subscription(current_user, service_name)
            THEN /\ response' = Resp("add_subscription", email, auth_token,
                                     409, "Subscription already exists",
                                     NoToken, "none")
                 /\ UNCHANGED <<user_database, data_file>>
            ELSE \E outcome \in SaveOutcomes :
                 /\ user_database' = [user_database EXCEPT
                        ![email].subscriptions =
                            Append(@, [service_name |-> service_name,
                                       starting_date |-> starting_date])]
                 /\ data_file' = save_data_to_file(user_database', data_file,
                                                   outcome)
                 /\ response' = Resp("add_subscription", email, auth_token,
                                     201, "Subscription added", NoToken,
                                     outcome)

AddSubscription ==
    \E auth_token \in BogusToken .. (next_token - 1),
       service_name \in Services, starting_date \in StartingDates :
        /\ add_subscription(auth_token, service_name, starting_date)
        /\ UNCHANGED io_vars
        /\ UNCHANGED login_passwords
        /\ UNCHANGED <<email_to_token_map, now, next_token, login_log, pc, local>>

\* index of the first subscription with that name, 0 when there is none
find_subscription_by_name(user, service_name) ==
    LET hits == {i \in 1 .. Len(user.subscriptions) :
                    user.subscriptions[i].service_name = service_name} IN
    IF hits = {} THEN 0
    ELSE CHOOSE i \in hits : \A j \in hits : i <= j

\* list.pop(index)
Pop(list, index) ==
    SubSeq(list, 1, index - 1) \o SubSeq(list, index + 1, Len(list))

\* a delete that removes the named subscription from every account
Mutant_delete_subscription(auth_token, service_name) ==
    LET r == get_current_user(auth_token) IN
    /\ active_sessions' = SessionsAfterAuth(auth_token)
    /\ IF r.status # 200
       THEN /\ response' = Resp("delete_subscription", "", auth_token,
                                r.status, r.detail, NoToken, "none")
            /\ UNCHANGED <<user_database, data_file>>
       ELSE /\ user_database' =
                [email \in DOMAIN user_database |->
                    [user_database[email] EXCEPT !.subscriptions =
                        SelectSeq(@, LAMBDA sub :
                                        sub.service_name # service_name)]]
            /\ data_file' = save_data_to_file(user_database', data_file, "ok")
            /\ response' = Resp("delete_subscription", r.detail, auth_token,
                                200, "Subscription deleted", NoToken, "ok")

delete_subscription(auth_token, service_name) ==
    LET r == get_current_user(auth_token) IN
    /\ active_sessions' = SessionsAfterAuth(auth_token)
    /\ IF r.status # 200
       THEN /\ response' = Resp("delete_subscription", "", auth_token,
                                r.status, r.detail, NoToken, "none")
            /\ UNCHANGED <<user_database, data_file>>
       ELSE LET email == r.detail
                current_user == user_database[email]
                index == find_subscription_by_name(current_user,
                                                   service_name) IN
            IF index = 0
            THEN /\ response' = Resp("delete_subscription", email, auth_token,
                                     404, "Subscription not found", NoToken,
                                     "none")
                 /\ UNCHANGED <<user_database, data_file>>
            ELSE \E outcome \in SaveOutcomes :
                 /\ user_database' = [user_database EXCEPT
                        ![email].subscriptions = Pop(@, index)]
                 /\ data_file' = save_data_to_file(user_database', data_file,
                                                   outcome)
                 /\ response' = Resp("delete_subscription", email, auth_token,
                                     200, "Subscription deleted", NoToken,
                                     outcome)

DeleteSubscription ==
    \E auth_token \in BogusToken .. (next_token - 1),
       service_name \in Services :
        /\ delete_subscription(auth_token, service_name)
        /\ UNCHANGED io_vars
        /\ UNCHANGED login_passwords
        /\ UNCHANGED <<email_to_token_map, now, next_token, login_log, pc, local>>

\* the bodies clients send with PUT /subscriptions/{service_name}
UpdateBodies == { [starting_date |-> Date(2025, 3, 1)] }

\* existing_subscription.model_dump() updated with the body
UpdatedData(existing, body) ==
    [service_name |-> IF "service_name" \in DOMAIN body
                      THEN body.service_name ELSE existing.service_name,
     starting_date |-> IF "starting_date" \in DOMAIN body
                       THEN body.starting_date ELSE existing.starting_date]

update_subscription(auth_token, service_name, updated_subscription) ==
    LET r == get_current_user(auth_token) IN
    /\ active_sessions' = SessionsAfterAuth(auth_token)
    /\ IF r.status # 200
       THEN /\ response' = Resp("update_subscription", "", auth_token,
                                r.status, r.detail, NoToken, "none")
            /\ UNCHANGED <<user_database, data_file>>
       ELSE LET email == r.detail
                current_user == user_database[email]
                index == find_subscription_by_name(current_user,
                                                   service_name) IN
            IF index = 0
            THEN /\ response' = Resp("update_subscription", email, auth_token,
                                     404, "Subscription not found", NoToken,
                                     "none")
                 /\ UNCHANGED <<user_database, data_file>>
            ELSE IF /\ "service_name" \in DOMAIN updated_subscription
                    /\ updated_subscription.service_name # service_name
                    /\ check_duplicate_subscription(current_user,
                            updated_subscription.service_name)
            THEN /\ response' = Resp("update_subscription", email, auth_token,
                                     409, "Subscription already exists",
                                     NoToken, "none")
                 /\ UNCHANGED <<user_database, data_file>>
            ELSE \E outcome \in SaveOutcomes :
                 /\ user_database' = [user_database EXCEPT
                        ![email].subscriptions[index] =
                            UpdatedData(@, updated_subscription)]
                 /\ data_file' = save_data_to_file(user_database', data_file,
                                                   outcome)
                 /\ response' = Resp("update_subscription", email, auth_token,
                                     200, "Subscription updated", NoToken,
                                     outcome)

UpdateSubscription ==
    \E auth_token \in BogusToken .. (next_token - 1),
       service_name \in Services,
       updated_subscription \in UpdateBodies :
        /\ update_subscription(auth_token, service_name, updated_subscription)
        /\ UNCHANGED io_vars
        /\ UNCHANGED login_passwords
        /\ UNCHANGED <<email_to_token_map, now, next_token, login_log, pc, local>>

list_subscriptions(auth_token) ==
    LET r == get_current_user(auth_token) IN
    /\ active_sessions' = SessionsAfterAuth(auth_token)
    /\ response' = IF r.status # 200
                   THEN Resp("list_subscriptions", "", auth_token, r.status,
                             r.detail, NoToken, "none")
                   ELSE Resp("list_subscriptions", r.detail, auth_token, 200,
                             "", NoToken, "none")

ListSubscriptions ==
    \E auth_token \in BogusToken .. (next_token - 1) :
        /\ list_subscriptions(auth_token)
        /\ UNCHANGED io_vars
        /\ UNCHANGED login_passwords
        /\ UNCHANGED <<user_database, email_to_token_map, data_file, now,
                       next_token, login_log, pc, local>>

\* ------------------------------------------------------------------ load
\* a load that clears the session table, as the load of old_src does
Mutant_SessionsAfterLoad(sessions) == EmptyDict

\* perform_load clears user_database only ("Don't clear active sessions")
SessionsAfterLoad(sessions) == sessions

Load ==
    \E order \in Orders(DOMAIN data_file.users) :
    LET r == load_data_from_file(user_database, data_file, order) IN
    /\ user_database' = r.db
    /\ active_sessions' = SessionsAfterLoad(active_sessions)
    /\ response' = Resp("load", "", NoToken, IF r.result THEN 1 ELSE 0, "",
                        NoToken, "none")
    /\ UNCHANGED io_vars
    /\ UNCHANGED login_passwords
    /\ UNCHANGED <<email_to_token_map, data_file, now, next_token,
                   login_log, pc, local>>

\* ----------------------------------------------------------------- clock
Tick ==
    \E d \in TickSteps :
        /\ now + d <= MaxTime
        /\ now' = now + d
        /\ UNCHANGED io_vars
        /\ UNCHANGED login_passwords
        /\ UNCHANGED <<user_database, active_sessions, email_to_token_map,
                       data_file, next_token, response, login_log,
                       pc, local>>

\* ------------------------------------------------- concurrent logins
\* login_user run by request workers of the thread pool, one statement
\* group at a time: the checks, the read of the index, the delete of the
\* previous session, create_access_token, the update of the index.
LoginBegin(w) ==
    \E email \in Emails, password \in Passwords :
        LET f == LoginFailure(email, password) IN
        /\ pc[w] = "idle"
        /\ IF f.status # 200
           THEN /\ response' = Resp("login", email, NoToken, f.status,
                                    f.detail, NoToken, "none")
                /\ UNCHANGED <<pc, local>>
           ELSE /\ pc' = [pc EXCEPT ![w] = "read_index"]
                /\ local' = [local EXCEPT ![w] =
                        [NoLocal EXCEPT !.email = email,
                                        !.password = password]]
                /\ UNCHANGED response
        /\ UNCHANGED io_vars
        /\ UNCHANGED login_passwords
        /\ UNCHANGED <<user_database, active_sessions, email_to_token_map,
                       data_file, now, next_token, login_log>>

LoginReadIndex(w) ==
    /\ pc[w] = "read_index"
    /\ local' = [local EXCEPT ![w].existing_token =
                    IF local[w].email \in DOMAIN email_to_token_map
                    THEN email_to_token_map[local[w].email]
                    ELSE NoToken]
    /\ pc' = [pc EXCEPT ![w] = "invalidate"]
    /\ UNCHANGED io_vars
    /\ UNCHANGED login_passwords
    /\ UNCHANGED <<user_database, active_sessions, email_to_token_map,
                   data_file, now, next_token, response, login_log>>

LoginInvalidate(w) ==
    /\ pc[w] = "invalidate"
    /\ active_sessions' =
            IF local[w].existing_token \in DOMAIN active_sessions
            THEN DictDel(active_sessions, local[w].existing_token)
            ELSE active_sessions
    /\ pc' = [pc EXCEPT ![w] = "create"]
    /\ UNCHANGED io_vars
    /\ UNCHANGED login_passwords
    /\ UNCHANGED <<user_database, email_to_token_map, data_file, now,
                   next_token, response, login_log, local>>

LoginCreate(w) ==
    /\ pc[w] = "create"
    /\ next_token <= MaxTokens
    /\ active_sessions' = create_access_token(active_sessions, next_token,
                                              local[w].email)
    /\ next_token' = next_token + 1
    /\ local' = [local EXCEPT ![w].session_token = next_token]
    /\ pc' = [pc EXCEPT ![w] = "update_index"]
    /\ UNCHANGED io_vars
    /\ UNCHANGED login_passwords
    /\ UNCHANGED <<user_database, email_to_token_map, data_file, now,
                   response, login_log>>

LoginUpdateIndex(w) ==
    /\ pc[w] = "update_index"
    /\ email_to_token_map' = UpdateIndex(email_to_token_map, local[w].email,
                                        local[w].session_token)
    /\ login_log' = DictPut(login_log, local[w].session_token, local[w].email)
    /\ login_passwords' = DictPut(login_passwords, local[w].session_token,
                                  local[w].password)
    /\ response' = Resp("login", local[w].email, NoToken, 200,
                        "Login successful", local[w].session_token, "none")
    /\ pc' = [pc EXCEPT ![w] = "idle"]
    /\ local' = [local EXCEPT ![w] = NoLocal]
    /\ UNCHANGED io_vars
    /\ UNCHANGED <<user_database, active_sessions, data_file, now, next_token>>

Next ==
    \/ Register
    \/ Login
    \/ Logout
    \/ Resolve
    \/ AddSubscription
    \/ Load
    \/ Tick

Spec == Init /\ [][Next]_vars

\* the subscription handlers next to the authentication handlers
NextCrud ==
    \/ Register
    \/ Login
    \/ Logout
    \/ AddSubscription
    \/ DeleteSubscription
    \/ ListSubscriptions
    \/ Tick

SpecCrud == Init /\ [][NextCrud]_vars

\* the subscription mutations of two logged-in users, the clock standing
NextIsolation ==
    \/ Register
    \/ Login
    \/ AddSubscription
    \/ UpdateSubscription
    \/ DeleteSubscription

SpecIsolation == Init /\ [][NextIsolation]_vars

NextConc ==
    \/ Register
    \/ \E w \in Workers : LoginBegin(w)
    \/ \E w \in Workers : LoginReadIndex(w)
    \/ \E w \in Workers : LoginInvalidate(w)
    \/ \E w \in Workers : LoginCreate(w)
    \/ \E w \in Workers : LoginUpdateIndex(w)
    \/ Resolve

SpecConc == Init /\ [][NextConc]_vars

\* ------------------------------------------------ restart of the process
\* The process stops (shut down or killed: application_lifespan saves
\* nothing on the way out) and is started again: the module-level
\* dictionaries are new and empty, and the lifespan handler loads the data
\* file before the first request. The clock and the token source go on.
Restart ==
    \E order \in Orders(DOMAIN data_file.users) :
        LET r == load_data_from_file(EmptyDict, data_file, order) IN
        /\ user_database' = r.db
        /\ active_sessions' = EmptyDict
        /\ email_to_token_map' = EmptyDict
        /\ pc' = [w \in Workers |-> "idle"]
        /\ local' = [w \in Workers |-> NoLocal]
        /\ save_pc' = "idle"
        /\ response' = Resp("restart", "", NoToken,
                            IF r.result THEN 1 ELSE 0, "", NoToken, "none")
        /\ UNCHANGED login_passwords
        /\ UNCHANGED <<data_file, now, next_token, login_log, save_prev,
                       last_save_time, temp_file, save_log>>

\* ------------------------------------------- save, one statement at a time
\* open(DATA_FILEPATH, "w") leaves an empty file; what json.dump has
\* written before it returns is a prefix of the document
Truncated == [state |-> "corrupt", users |-> EmptyDict]

\* register_user up to and including the open() of perform_save
RegisterOpen ==
    \E user_data \in RegisterRequests :
        /\ save_pc = "idle"
        /\ IF user_data.email \in DOMAIN user_database
           THEN /\ response' = Resp("register", user_data.email, NoToken, 400,
                                    "Email already registered", NoToken,
                                    "none")
                /\ UNCHANGED <<user_database, data_file, save_pc, save_prev,
                               local>>
           ELSE /\ user_database' = DictPut(user_database, user_data.email,
                       [username |-> user_data.username,
                        passhash |-> hash_password(user_data.password),
                        subscriptions |-> <<>>])
                /\ save_prev' = data_file
                /\ data_file' = Truncated
                /\ save_pc' = "opened"
                /\ local' = [local EXCEPT !["w1"].email = user_data.email]
                /\ UNCHANGED response
        /\ UNCHANGED login_passwords
        /\ UNCHANGED <<active_sessions, email_to_token_map, now, next_token,
                       login_log, pc, last_save_time, temp_file, save_log>>

\* json.dump, the close of the file, and the return of register_user
SaveWrite ==
    /\ save_pc = "opened"
    /\ data_file' = Snapshot(user_database)
    /\ save_pc' = "idle"
    /\ response' = Resp("register", local["w1"].email, NoToken, 201,
                        "Registration successful", NoToken, "ok")
    /\ local' = [local EXCEPT !["w1"] = NoLocal]
    /\ UNCHANGED login_passwords
    /\ UNCHANGED <<user_database, active_sessions, email_to_token_map, now,
                   next_token, login_log, pc, save_prev, last_save_time,
                   temp_file, save_log>>

NextCrash ==
    \/ RegisterOpen
    \/ SaveWrite
    \/ Login
    \/ Restart

SpecCrash == Init /\ [][NextCrash]_vars

\* ------------------------------------------- data files found at startup
\* What a data file left by an earlier run, or edited by hand, can hold for
\* one account: a record as save writes it, a record whose starting_date is
\* well formed but names no day, one whose starting_date is some other
\* text, one User() rejects (empty username), and a value that is not an
\* object.
StoredUser(username, date_text) ==
    [kind |-> "object",
     username |-> username,
     passhash |-> hash_password("P1!aaaaa"),
     subscriptions |-> << [service_name |-> "Netflix",
                           starting_date |-> [str |-> date_text]] >>]

StoredUsers ==
    { StoredUser("ann", <<2024, 2, 29>>),
      StoredUser("ann", <<2025, 2, 30>>),
      StoredUser("ann", << >>),
      StoredUser("", <<2024, 2, 29>>),
      [kind |-> "scalar"] }

Documents ==
    { NoFile,
      [state |-> "corrupt", users |-> EmptyDict],
      [state |-> "wrong_shape", users |-> EmptyDict] }
    \cup { [state |-> "ok", users |-> users] :
            users \in UNION { [keys -> StoredUsers] : keys \in SUBSET Emails } }

InitPersist ==
    /\ ProcessStart
    /\ data_file \in Documents
    /\ now = 0

NextPersist ==
    \/ Register
    \/ Login
    \/ Resolve
    \/ AddSubscription
    \/ Load
    \/ Restart

SpecPersist == InitPersist /\ [][NextPersist]_vars

\* ----------------------------------- old_src: the throttled persistence
\* old_src/app/db/storage.py keeps the password hashes in password_storage
\* next to user_database and writes both maps; here an account record
\* carries its hash, and Snapshot stands for the document holding both.
SAVE_THROTTLE_SECONDS == 1

\* time.time() when the process starts
StartTimes == {1000}

\* perform_save of old_src run under safe_operation: the temporary file
\* and the target afterwards, and whether perform_save returned True.
\* data_file.flush() stands after the with block, so it is called on a
\* file that is already closed and raises ValueError; os.fsync and
\* os.replace are never reached and safe_operation returns None.
old_perform_save(db, temp, target, io) ==
    CASE io = "open_fail" ->
            [temp_file |-> temp, data_file |-> target, result |-> FALSE]
      [] io = "write_fail" ->
            [temp_file |-> Truncated, data_file |-> target, result |-> FALSE]
      [] OTHER ->
            [temp_file |-> Snapshot(db), data_file |-> target,
             result |-> FALSE]

\* save_data_to_file(force) of old_src as one step on the storage state
old_save_data_to_file(force, io) ==
    LET current_time == now IN
    IF ~force /\ current_time - last_save_time < SAVE_THROTTLE_SECONDS
    THEN /\ save_log' = Append(save_log,
                [time |-> current_time, force |-> force, io |-> io,
                 result |-> TRUE, wrote |-> FALSE])
         /\ UNCHANGED <<temp_file, data_file, last_save_time>>
    ELSE LET done == old_perform_save(user_database', temp_file, data_file,
                                      io) IN
         /\ temp_file' = done.temp_file
         /\ data_file' = done.data_file
         /\ last_save_time' = IF done.result THEN current_time
                              ELSE last_save_time
         /\ save_log' = Append(save_log,
                [time |-> current_time, force |-> force, io |-> io,
                 result |-> done.result,
                 wrote |-> done.data_file # data_file])

\* the process has not been shut down
Running == response.op # "shutdown"

\* register of old_src/app/api/auth.py
OldRegister ==
    \E user_data \in RegisterRequests :
        /\ Running
        /\ IF user_data.email \in DOMAIN user_database
           THEN /\ response' = Resp("register", user_data.email, NoToken, 400,
                                    "Email already registered", NoToken,
                                    "none")
                /\ UNCHANGED <<user_database, data_file, temp_file,
                               last_save_time, save_log>>
           ELSE \E io \in SaveOutcomes :
                /\ Len(save_log) < MaxSaves
                /\ user_database' = DictPut(user_database, user_data.email,
                       [username |-> user_data.username,
                        passhash |-> hash_password(user_data.password),
                        subscriptions |-> <<>>])
                /\ old_save_data_to_file(FALSE, io)
                /\ response' = Resp("register", user_data.email, NoToken, 201,
                                    "Registration successful", NoToken, io)
        /\ UNCHANGED login_passwords
        /\ UNCHANGED <<active_sessions, email_to_token_map, now, next_token,
                       login_log, pc, local, save_pc, save_prev>>

\* a direct call, as the tests of old_src make
OldSave ==
    \E force \in BOOLEAN, io \in SaveOutcomes :
        /\ Running
        /\ Len(save_log) < MaxSaves
        /\ UNCHANGED user_database
        /\ old_save_data_to_file(force, io)
        /\ response' = Resp("save", "", NoToken,
                            IF save_log'[Len(save_log')].result THEN 1 ELSE 0,
                            "", NoToken, io)
        /\ UNCHANGED login_passwords
        /\ UNCHANGED <<active_sessions, email_to_token_map, now, next_token,
                       login_log, pc, local, save_pc, save_prev>>

\* the shutdown half of lifespan in old_src/main.py
OldShutdown ==
    \E io \in SaveOutcomes :
        /\ Running
        /\ Len(save_log) < MaxSaves
        /\ UNCHANGED user_database
        /\ old_save_data_to_file(TRUE, io)
        /\ response' = Resp("shutdown", "", NoToken,
                            IF save_log'[Len(save_log')].result THEN 1 ELSE 0,
                            "", NoToken, io)
        /\ UNCHANGED login_passwords
        /\ UNCHANGED <<active_sessions, email_to_token_map, now, next_token,
                       login_log, pc, local, save_pc, save_prev>>

OldTick ==
    /\ Running
    /\ \E start \in StartTimes : now + 1 <= start + MaxTicks
    /\ now' = now + 1
    /\ UNCHANGED login_passwords
    /\ UNCHANGED <<user_database, active_sessions, email_to_token_map,
                   data_file, next_token, response, login_log, pc, local,
                   io_vars>>

InitOld ==
    /\ ProcessStart
    /\ data_file = NoFile
    /\ now \in StartTimes

NextOld ==
    \/ OldRegister
    \/ OldSave
    \/ OldShutdown
    \/ OldTick

SpecOld == InitOld /\ [][NextOld]_vars

\* --------------------------------------------- concurrent registrations
\* register_user and the save_data_to_file it calls, run by request
\* workers of the thread pool one statement group at a time: the test for
\* an existing email with the hashing, the insert, the building of
\* data_to_save, the open of the data file, json.dump with the close.
RegCheck(w) ==
    \E user_data \in RegisterRequests :
        /\ pc[w] = "idle"
        /\ IF user_data.email \in DOMAIN user_database
           THEN /\ response' = Resp("register", user_data.email, NoToken, 400,
                                    "Email already registered", NoToken,
                                    "none")
                /\ UNCHANGED <<pc, local>>
           ELSE /\ pc' = [pc EXCEPT ![w] = "reg_insert"]
                /\ local' = [local EXCEPT ![w] =
                        [NoLocal EXCEPT
                            !.email = user_data.email,
                            !.username = user_data.username,
                            !.password_hash =
                                hash_password(user_data.password)]]
                /\ UNCHANGED response
        /\ UNCHANGED login_passwords
        /\ UNCHANGED <<user_database, active_sessions, email_to_token_map,
                       data_file, now, next_token, login_log, io_vars>>

RegInsert(w) ==
    /\ pc[w] = "reg_insert"
    /\ user_database' = DictPut(user_database, local[w].email,
            [username |-> local[w].username,
             passhash |-> local[w].password_hash,
             subscriptions |-> <<>>])
    /\ pc' = [pc EXCEPT ![w] = "reg_serialize"]
    /\ UNCHANGED login_passwords
    /\ UNCHANGED <<active_sessions, email_to_token_map, data_file, now,
                   next_token, response, login_log, local, io_vars>>

RegSerialize(w) ==
    /\ pc[w] = "reg_serialize"
    /\ local' = [local EXCEPT ![w].data_to_save = Snapshot(user_database)]
    /\ pc' = [pc EXCEPT ![w] = "reg_open"]
    /\ UNCHANGED login_passwords
    /\ UNCHANGED <<user_database, active_sessions, email_to_token_map,
                   data_file, now, next_token, response, login_log, io_vars>>

RegOpen(w) ==
    /\ pc[w] = "reg_open"
    /\ data_file' = Truncated
    /\ pc' = [pc EXCEPT ![w] = "reg_write"]
    /\ UNCHANGED login_passwords
    /\ UNCHANGED <<user_database, active_sessions, email_to_token_map, now,
                   next_token, response, login_log, local, io_vars>>

\* The length of a document. The emails, usernames and hashes of the
\* requests have the same lengths, so the number of records decides.
Size(file) == Cardinality(DOMAIN file.users)

\* What the file holds after a handle opened earlier writes document at
\* offset 0 and closes: the document, unless another handle has written a
\* longer one since the open, whose tail then follows the document.
WriteOver(file, document) ==
    IF Size(document) >= Size(file) THEN document
    ELSE [state |-> "corrupt", users |-> file.users]

RegWrite(w) ==
    /\ pc[w] = "reg_write"
    /\ data_file' = WriteOver(data_file, local[w].data_to_save)
    /\ response' = Resp("register", local[w].email, NoToken, 201,
                        "Registration successful", NoToken, "ok")
    /\ pc' = [pc EXCEPT ![w] = "idle"]
    /\ local' = [local EXCEPT ![w] = NoLocal]
    /\ UNCHANGED login_passwords
    /\ UNCHANGED <<user_database, active_sessions, email_to_token_map, now,
                   next_token, login_log, io_vars>>

NextWorkers ==
    \/ \E w \in Workers : RegCheck(w)
    \/ \E w \in Workers : RegInsert(w)
    \/ \E w \in Workers : RegSerialize(w)
    \/ \E w \in Workers : RegOpen(w)
    \/ \E w \in Workers : RegWrite(w)

SpecWorkers == Init /\ [][NextWorkers]_vars

\* ================================================================ claims
\* the step just taken is the handler `op` (only Tick moves the clock, and
\* every handler writes its own name into the response)
HandlerStep(op) == now' = now /\ response'.op = op

OwnersOf(sessions, email) == {t \in DOMAIN sessions : sessions[t].email = email}

\* C1: in every state reached by register, login, logout, resolve (and the
\* other handlers) run one after another, no identity owns more than one
\* entry of active_sessions.
C1_SingleSession ==
    \A email \in Emails : Cardinality(OwnersOf(active_sessions, email)) <= 1

\* an identity that already held a session has just logged in again
C1_Witness ==
    /\ response.op = "login" /\ response.status = 200
    /\ response.token = 2
    /\ login_log[1] = login_log[2]
    /\ DOMAIN active_sessions = {2}
    /\ now < 3600

\* C2: under every interleaving of the steps of concurrent logins, no
\* identity owns two entries of active_sessions.
C2_SingleSessionConcurrent ==
    \A email \in Emails :
        \A t1, t2 \in OwnersOf(active_sessions, email) : t1 = t2

\* C3: right after a login for A returned token T2, T2 resolves to A's
\* account, and no token an earlier login of A returned resolves any more.
C3_SessionEviction ==
    [][ /\ (HandlerStep("login") /\ response'.status = 200) =>
               /\ \A t2 \in 1 .. MaxTokens :
                      t2 = response'.token =>
                          get_current_user(t2)' =
                              [status |-> 200, detail |-> response'.email]
               /\ response'.email \in DOMAIN user_database'
        /\ \A t1, t2 \in DOMAIN login_log' :
               (t1 < t2 /\ login_log'[t1] = login_log'[t2]) =>
                   get_current_user(t1)'.status = 401 ]_vars

\* the second login of one identity has returned while the first token was live
C3_Witness ==
    /\ response.op = "login" /\ response.status = 200 /\ response.token = 2
    /\ login_log[1] = login_log[2]
    /\ now <= 1801
    /\ get_current_user(2).status = 200
    /\ 1 \notin DOMAIN active_sessions

\* C4: a resolve of a session at now > expires answers "Token expired" and
\* removes the entry; a token that is out of the table never comes back, so
\* every later resolve answers "Invalid or expired token".
C4_ExpiryMonotonic ==
    [][ \A tok \in 1 .. MaxTokens :
          /\ ( /\ HandlerStep("resolve") /\ response'.tok = tok
               /\ tok \in DOMAIN active_sessions
               /\ now > active_sessions[tok].expires )
             => /\ response'.status = 401
                /\ response'.detail = "Token expired"
                /\ tok \notin DOMAIN active_sessions'
          /\ (tok < next_token /\ tok \notin DOMAIN active_sessions)
             => /\ tok \notin DOMAIN active_sessions'
                /\ get_current_user(tok)'.detail = "Invalid or expired token"
      ]_vars

\* an expired token has been resolved and then resolved again
C4_Witness ==
    /\ response.op = "resolve" /\ response.tok = 1
    /\ response.detail = "Invalid or expired token"
    /\ 1 \in DOMAIN login_log
    /\ now > 3600
    /\ DOMAIN email_to_token_map = {login_log[1]}
    /\ email_to_token_map[login_log[1]] = 1

\* C5: resolve answers InvalidToken for a token out of the table, else
\* Expired when now > expires (at now = expires the session is accepted),
\* else AccountNotFound when the owner is not in user_database, else the
\* owner's account; expiry is decided before account existence.
C5_ResolveContract ==
    [][ HandlerStep("resolve") =>
          LET tok == response'.tok IN
          /\ tok \notin DOMAIN active_sessions =>
                /\ response'.status = 401
                /\ response'.detail = "Invalid or expired token"
          /\ tok \in DOMAIN active_sessions =>
                LET s == active_sessions[tok] IN
                /\ s.expires < now =>
                      /\ response'.status = 401
                      /\ response'.detail = "Token expired"
                /\ (s.expires >= now /\ s.email \notin DOMAIN user_database) =>
                      /\ response'.status = 401
                      /\ response'.detail = "Account not found"
                /\ (s.expires >= now /\ s.email \in DOMAIN user_database) =>
                      /\ response'.status = 200
                      /\ response'.detail = s.email
                      /\ tok \in DOMAIN active_sessions'
      ]_vars

\* a session has been accepted at the very instant of its expiry
C5_Witness ==
    /\ response.op = "resolve" /\ response.status = 200
    /\ response.tok \in DOMAIN active_sessions
    /\ active_sessions[response.tok].expires = now

\* C6: after logout(T) answered "Logout successful", T is out of the table
\* and resolves as InvalidToken from then on; every other session is as it
\* was before the logout.
C6_Logout ==
    [][ /\ (HandlerStep("logout") /\ response'.detail = "Logout successful") =>
            \A tok \in {response'.tok} \cap (0 .. MaxTokens) :
            /\ tok \in DOMAIN active_sessions
            /\ tok \notin DOMAIN active_sessions'
            /\ get_current_user(tok)'.detail = "Invalid or expired token"
            /\ \A t \in DOMAIN active_sessions \ {tok} :
                   /\ t \in DOMAIN active_sessions'
                   /\ active_sessions'[t] = active_sessions[t]
            /\ DOMAIN active_sessions' \subseteq DOMAIN active_sessions
        /\ \A tok \in DOMAIN login_log :
               (tok \notin DOMAIN active_sessions /\ login_log' = login_log)
                   => tok \notin DOMAIN active_sessions'
      ]_vars

\* one identity has logged out while another identity's session stays live
C6_Witness ==
    /\ response.op = "logout" /\ response.detail = "Logout successful"
    /\ response.tok \notin DOMAIN active_sessions
    /\ \E t \in DOMAIN active_sessions :
           active_sessions[t].email # response.email

\* C7: logout with a token that is not in active_sessions is not an error:
\* it answers 200 "Already logged out" and changes no state.
C7_IdempotentLogout ==
    [][ (HandlerStep("logout") /\ response'.tok \notin DOMAIN active_sessions)
          => /\ response'.status = 200
             /\ response'.detail = "Already logged out"
             /\ UNCHANGED <<user_database, active_sessions,
                            email_to_token_map, data_file>>
      ]_vars

\* C8: a login at time t0 stores its token with expires = t0 + 3600; the
\* entry is never altered, leaves the table only by its own logout, by a
\* new login of its owner or once now > expires, and while now <= expires
\* and the owner's account exists it resolves to that account.
C8_TokenLifetime ==
    [][ /\ (HandlerStep("login") /\ response'.status = 200) =>
               active_sessions'[response'.token] =
                   [email |-> response'.email, expires |-> now + 3600]
        /\ \A tok \in DOMAIN active_sessions :
               LET s == active_sessions[tok] IN
               /\ tok \in DOMAIN active_sessions' => active_sessions'[tok] = s
               /\ tok \notin DOMAIN active_sessions' =>
                      \/ now > s.expires
                      \/ /\ HandlerStep("logout") /\ response'.tok = tok
                         /\ response'.detail = "Logout successful"
                      \/ /\ HandlerStep("login") /\ response'.status = 200
                         /\ response'.email = s.email
        /\ \A tok \in DOMAIN active_sessions' :
               LET s == active_sessions'[tok] IN
               (now' <= s.expires /\ s.email \in DOMAIN user_database') =>
                   get_current_user(tok)' = [status |-> 200, detail |-> s.email]
      ]_vars

\* a token issued at time 0 is still accepted 3600 seconds later
C8_Witness ==
    \E tok \in DOMAIN active_sessions :
        /\ active_sessions[tok].expires = 3600
        /\ now = 3600
        /\ response.op = "add_subscription" /\ response.status = 201
        /\ response.tok = tok

\* C9: register of an identity that is already a key answers 400 "Email
\* already registered", leaves user_database and the data file untouched
\* and calls no save; register of a new identity inserts an account with
\* no subscriptions and leaves the other accounts alone.
C9_Register ==
    [][ HandlerStep("register") =>
          LET email == response'.email IN
          IF email \in DOMAIN user_database
          THEN /\ response'.status = 400
               /\ response'.detail = "Email already registered"
               /\ response'.save = "none"
               /\ user_database' = user_database
               /\ data_file' = data_file
          ELSE /\ response'.status = 201
               /\ DOMAIN user_database' = DOMAIN user_database \cup {email}
               /\ user_database'[email].subscriptions = <<>>
               /\ \A e \in DOMAIN user_database :
                      user_database'[e] = user_database[e]
      ]_vars

\* a second registration, under another name and password, of an identity
\* that owns a subscription has been refused
C9_Witness ==
    /\ response.op = "register" /\ response.status = 400
    /\ response.email \in DOMAIN user_database
    /\ user_database[response.email].username = "ann"
    /\ Len(user_database[response.email].subscriptions) = 1
    /\ data_file = Snapshot(user_database)

\* C10: a login that fails answers 404 "User not found" for an identity
\* that is not registered and 401 "Incorrect password" otherwise, and
\* leaves active_sessions, the index and user_database as they were, so a
\* session the identity holds resolves as before.
C10_FailedLogin ==
    [][ (HandlerStep("login") /\ response'.status # 200) =>
          /\ IF response'.email \in DOMAIN user_database
             THEN response'.status = 401 /\ response'.detail = "Incorrect password"
             ELSE response'.status = 404 /\ response'.detail = "User not found"
          /\ UNCHANGED <<active_sessions, email_to_token_map, user_database,
                         data_file, next_token>>
          /\ \A tok \in DOMAIN active_sessions :
                 get_current_user(tok)' = get_current_user(tok)
      ]_vars

\* a login with a wrong password has failed for an identity whose session
\* is live
C10_Witness ==
    /\ response.op = "login" /\ response.status = 401
    /\ response.email \in DOMAIN email_to_token_map
    /\ get_current_user(email_to_token_map[response.email]) =
           [status |-> 200, detail |-> response.email]

\* the handlers that run behind Depends(get_current_user)
ProtectedOps == {"add_subscription", "delete_subscription",
                 "list_subscriptions", "logout"}

C12_AtomicSave ==
    [][(HandlerStep("restart") /\ save_pc = "opened") =>
            \/ data_file' = save_prev
            \/ data_file' = Snapshot(user_database)]_vars

SaveCall == Len(save_log') = Len(save_log) + 1

\* C14: a save_data_to_file(force=True) of the throttled module that meets
\* no I/O error returns True, and afterwards the data file holds the
\* serialized store as of the call.
C14_ForcedSave ==
    [][SaveCall =>
        LET call == save_log'[Len(save_log')] IN
        (call.force /\ call.io = "ok") =>
            /\ call.result
            /\ data_file' = Snapshot(user_database')]_vars

\* C15: of two non-forced saves of the throttled module made less than
\* SAVE_THROTTLE_SECONDS apart with no I/O error, the first opening the
\* throttle window, both return True, the first writes the data file and
\* the second does not.
C15_Throttle ==
    \A i \in 1 .. Len(save_log) - 1 :
        LET first == save_log[i]
            second == save_log[i + 1] IN
        ( /\ ~first.force /\ ~second.force
          /\ first.io = "ok" /\ second.io = "ok"
          /\ second.time - first.time < SAVE_THROTTLE_SECONDS
          /\ (i = 1 \/ first.time - save_log[i - 1].time
                            >= SAVE_THROTTLE_SECONDS) )
        => /\ first.result /\ second.result
           /\ first.wrote /\ ~second.wrote

\* C16: once the application has shut down with no I/O error in the
\* shutdown save, the data file is the snapshot of the final store.
C16_FinalStateDurable ==
    (/\ response.op = "shutdown"
     /\ response.save = "ok"
     /\ user_database # EmptyDict)
    => data_file = Snapshot(user_database)

\* C17: the document save writes holds the accounts and nothing else, and
\* after a restart of the process, whatever was saved and loaded, no token
\* returned by a login before the restart is accepted by get_current_user.
C17_SessionsNotPersisted ==
    /\ [](DOMAIN data_file = {"state", "users"})
    /\ [][HandlerStep("restart") =>
            \A tok \in DOMAIN login_log :
                get_current_user(tok)'.status = 401]_vars

\* a restart loaded the saved account of a user who had logged in
C17_Witness ==
    /\ response.op = "restart"
    /\ response.status = 1
    /\ data_file = Snapshot(user_database)
    /\ \E tok \in DOMAIN login_log : login_log[tok] \in DOMAIN user_database

\* C18: a call of load_data_from_file, successful or not, leaves
\* active_sessions, email_to_token_map and the data file as they were.
C18_LoadKeepsSessions ==
    [][HandlerStep("load") =>
        /\ active_sessions' = active_sessions
        /\ email_to_token_map' = email_to_token_map
        /\ data_file' = data_file]_vars

\* a load failed while a session was open
C18_Witness ==
    /\ response.op = "load"
    /\ response.status = 0
    /\ active_sessions # EmptyDict
    /\ email_to_token_map # EmptyDict

\* C19: when load_data_from_file returns False for a data file that
\* exists, user_database is empty afterwards.
C19_FailedLoadEmptiesStore ==
    [][((HandlerStep("load") \/ HandlerStep("restart"))
            /\ data_file.state # "absent"
            /\ response'.status = 0) =>
        user_database' = EmptyDict]_vars

\* every record of the document is a JSON object
AllObjects(file) ==
    \A email \in DOMAIN file.users : file.users[email].kind = "object"

\* C20: loading a document whose records are objects succeeds even when a
\* starting_date in it is not an ISO date; every record with a username
\* becomes an account with the stored username, hash and subscriptions,
\* where a starting_date that parses is kept and one that does not is
\* replaced by today's date.
C20_CorruptDateRecovery ==
    [][((HandlerStep("load") \/ HandlerStep("restart"))
            /\ data_file.state = "ok" /\ AllObjects(data_file)) =>
        /\ response'.status = 1
        /\ \A email \in DOMAIN data_file.users :
            LET stored == data_file.users[email] IN
            stored.username # "" =>
                /\ email \in DOMAIN user_database'
                /\ user_database'[email].username = stored.username
                /\ user_database'[email].passhash = stored.passhash
                /\ Len(user_database'[email].subscriptions)
                        = Len(stored.subscriptions)
                /\ \A i \in 1 .. Len(stored.subscriptions) :
                    LET text == stored.subscriptions[i].starting_date
                        loaded == user_database'[email].subscriptions[i] IN
                    /\ loaded.service_name
                            = stored.subscriptions[i].service_name
                    /\ loaded.starting_date =
                            IF fromisoformat(text).ok
                            THEN fromisoformat(text).date
                            ELSE today]_vars

\* a restart loaded one account whose stored date named no day, now dated
\* today, next to an account whose date was kept
C20_Witness ==
    /\ response.op = "restart"
    /\ response.status = 1
    /\ DOMAIN user_database = Emails
    /\ DOMAIN data_file.users = Emails
    /\ data_file.users["a@x.com"].subscriptions[1].starting_date
            = [str |-> <<2025, 2, 30>>]
    /\ user_database["a@x.com"].subscriptions[1].starting_date = today
    /\ user_database["b@x.com"].subscriptions[1].starting_date
            = Date(2024, 2, 29)

\* C21: loading a document that parses succeeds whatever its records are;
\* a record that cannot be rebuilt as an account (no username, or not an
\* object at all) is left out and every other record becomes an account.
C21_BadRecordSkipped ==
    [][((HandlerStep("load") \/ HandlerStep("restart"))
            /\ data_file.state = "ok") =>
        /\ response'.status = 1
        /\ DOMAIN user_database' =
                { email \in DOMAIN data_file.users :
                    /\ data_file.users[email].kind = "object"
                    /\ data_file.users[email].username # "" }]_vars

\* C22: when the save made by register_user, add_subscription or
\* delete_subscription fails, the request still returns its success
\* status, the change to user_database is kept, and the data file is as it
\* was before the request.
C22_FailedSaveKeepsRequest ==
    [][\A op \in {"register", "add_subscription", "delete_subscription"} :
        (HandlerStep(op) /\ response'.save \in {"open_fail", "write_fail"})
        => /\ response'.status \in {200, 201}
           /\ user_database' # user_database
           /\ data_file' = data_file]_vars

\* C23: once every worker has finished its request, the data file is the
\* complete document of the store as it is then.
C23_SaveOrdering ==
    ((\A w \in Workers : pc[w] = "idle") /\ user_database # EmptyDict)
    => data_file = Snapshot(user_database)

\* C29: an account once inserted is never replaced, and when a register
\* request returns 201 no other request for the same email is past its
\* test for an existing email.
C29_ConcurrentRegister ==
    [][/\ \A email \in DOMAIN user_database :
            /\ email \in DOMAIN user_database'
            /\ user_database'[email] = user_database[email]
       /\ (HandlerStep("register") /\ response'.status = 201) =>
            \A w \in Workers :
                ~(pc'[w] # "idle" /\ local'[w].email = response'.email)]_vars

C25_SaltedHashes ==
    \A e1, e2 \in DOMAIN user_database :
        e1 # e2 => user_database[e1].passhash # user_database[e2].passhash

\* the services an account holds
Held(user) ==
    { user.subscriptions[i].service_name :
        i \in 1 .. Len(user.subscriptions) }

\* C26: an add, update or delete made with a token changes the
\* subscriptions of no account other than the one the token's session
\* names; a delete of a service the requester does not hold answers 404
\* and changes nothing, even when another account holds that service.
C26_Isolation ==
    [][\A op \in {"add_subscription", "update_subscription",
                  "delete_subscription"} :
        HandlerStep(op) =>
            \A tok \in {response'.tok} \cap (BogusToken .. MaxTokens) :
                /\ \A email \in DOMAIN user_database :
                    (tok \notin DOMAIN active_sessions
                        \/ active_sessions[tok].email # email)
                    => user_database'[email] = user_database[email]
                /\ ( /\ op = "delete_subscription"
                     /\ get_current_user(tok).status = 200
                     /\ Held(user_database[get_current_user(tok).detail])
                            \cap Services = {} )
                   => /\ response'.status = 404
                      /\ user_database' = user_database]_vars

\* one user's delete of a service only the other user holds was refused
C26_Witness ==
    /\ response.op = "delete_subscription"
    /\ response.status = 404
    /\ DOMAIN user_database = Emails
    /\ Held(user_database[response.email]) \cap Services = {}
    /\ \E email \in Emails \ {response.email} :
            Held(user_database[email]) \cap Services # {}

\* C27: every session is the one the index names for its owner, and an
\* index entry that names a live session names one owned by that email.
C27_IndexConsistency ==
    /\ \A tok \in DOMAIN active_sessions :
        LET owner == active_sessions[tok].email IN
        /\ owner \in DOMAIN email_to_token_map
        /\ email_to_token_map[owner] = tok
    /\ \A email \in DOMAIN email_to_token_map :
        email_to_token_map[email] \in DOMAIN active_sessions
            => active_sessions[email_to_token_map[email]].email = email

\* one user's index entry is stale (its session expired and was removed by
\* get_current_user) while the other user's session is live
C27_Witness ==
    /\ active_sessions # EmptyDict
    /\ \E email \in DOMAIN email_to_token_map :
            email_to_token_map[email] \notin DOMAIN active_sessions
    /\ response.detail = "Token expired"

\* C28: the owner of every session is a key of user_database.
C28_SessionOwnersExist ==
    \A tok \in DOMAIN active_sessions :
        active_sessions[tok].email \in DOMAIN user_database

\* C30: a session appears in active_sessions only in a step of login_user
\* that returns 200 with that token, for an email registered at that
\* moment and a password that verifies against the hash stored for it; no
\* other handler adds a session.
C30_SessionsOnlyByLogin ==
    [][\A tok \in 1 .. MaxTokens :
        (tok \in DOMAIN active_sessions' /\ tok \notin DOMAIN active_sessions)
        => /\ HandlerStep("login")
           /\ response'.status = 200
           /\ response'.token = tok
           /\ active_sessions'[tok].email = response'.email
           /\ response'.email \in DOMAIN user_database
           /\ verify_password(login_passwords'[tok],
                              user_database[response'.email].passhash)]_vars

\* both users hold a session and a further login was refused
C30_Witness ==
    /\ Cardinality(DOMAIN active_sessions) = 2
    /\ response.op = "login"
    /\ response.status = 401
====
